---- MODULE Spec2Model ----
(***************************************************************************)
(* A model of tic: the batching Sender (src/src/sender.rs), the data       *)
(* channel and buffer pool, and the Receiver's aggregation state           *)
(* (src/src/receiver.rs, src/src/data/*.rs).                               *)
(***************************************************************************)
EXTENDS Integers, Sequences, FiniteSets, TLC

(***************************************************************************)
(* Bounds of the model.                                                    *)
(***************************************************************************)
\* config.batch_size: samples per batch (default 512)
BatchSize == 2
\* config.capacity: depth of the data channel and of the buffer pool (default 256)
Capacity == 1
\* number of Sender handles that get_sender / clone may create
MaxSenders == 2
\* number of samples the producers issue
MaxIssued == 3
\* config.max_tau: largest tau of an Allan accumulator (default 300)
MaxTau == 1
\* number of control messages the Receiver handles
MaxCtl == 2
\* number of data batches the Receiver handles in the aggregation specifications
MaxBatches == 2
\* number of window boundaries
MaxWindows == 2
\* clocksource ticks per nanosecond
Frequency == 2
\* number of Controller::get_meters calls
MaxCalls == 2
\* number of clock ticks (window durations) the run-loop specifications let pass
MaxTsc == 3
\* largest config.windows the run-loop specifications choose
MaxRunWindows == 2
\* number of samples the producers issue in the backpressure specification
MaxBacklog == 5

(***************************************************************************)
(* Program constants.                                                      *)
(***************************************************************************)
\* common::default_taus reports tau = 1 ..= 300
LastDefaultTau == 300

Labels == {"a", "b"}

(***************************************************************************)
(* Values.                                                                 *)
(***************************************************************************)
\* data::Sample.  id is the identity of the value the producer passed in
\* (a moved Rust value); the program never reads it.
Sample(id, channel, start, stop, count) ==
    [id |-> id, channel |-> channel, start |-> start, stop |-> stop, count |-> count]

\* Option<Vec<Sample>>
Some(v) == [some |-> TRUE, v |-> v]
None == [some |-> FALSE, v |-> <<>>]

NoArg == [kind |-> "none"]

RECURSIVE Flatten(_)
Flatten(batches) ==
    IF batches = <<>> THEN <<>> ELSE Head(batches) \o Flatten(Tail(batches))

VARIABLES
    \* --- producers and channels ---
    senders,          \* the Sender handles: [batch_size, buffer]
    data_q,           \* the data channel: batches in flight (sync_channel(capacity))
    empty_queue,      \* the buffer pool (mpmc::Queue of reusable Vec<Sample>)
    rx_alive,         \* the Receiver (owner of data_rx) has not been dropped
    \* --- Receiver (receiver.rs:25-49) ---
    interests, allans, counters, gauges,
    latency_histograms, value_histograms,
    latency_heatmaps, value_heatmaps,
    meters,
    windows_done,     \* window boundaries performed so far
    \* --- control channel and Controller (controller.rs) ---
    control_q,        \* the control channel: messages in flight (sync_channel(capacity))
    calls,            \* the get_meters calls: [state, cause, ret, rx, tx, slot,
                      \* issued, counted]; issued and counted are history: the
                      \* samples sent so far and whether the counter of "a"
                      \* has counted every applied one, at the time of the call
    \* --- Receiver::run (receiver.rs:350-371) and the clock ---
    config,           \* [windows, service_mode, poll_delay]
    run_pc,           \* where the Receiver's thread is
    window,           \* run's local window counter
    tsc,              \* clocksource.counter(), in window durations
    window_time,      \* the deadline of the current window
    saves,            \* windows_done at every save_files call, in order
    \* --- the queue-based Receiver of lib.rs ---
    legacy,           \* [pc, windows, window, t0, now, queue, total,
                      \* rollovers, saved]; rollovers is history
    \* --- history ---
    issued,           \* samples the producers have passed to send / try_send
    enqueued,         \* every batch the data channel has accepted, in order
    flusher,          \* flusher[n]: the Sender that enqueued batch enqueued[n]
    applied,          \* ids of the samples the Receiver has applied, in order
    handled,          \* [ctl, batches, added, since, boundaries]: what the
                      \* Receiver has handled; since[i] is the number of
                      \* samples that had been applied when AddInterest(i) was
                      \* last handled, boundaries[k] the number applied at
                      \* the k-th window boundary
    last              \* the last operation: [op, who, arg, ret, outcome]

chanVars == <<senders, data_q, empty_queue, rx_alive>>
rxVars == <<interests, allans, counters, gauges, latency_histograms,
            value_histograms, latency_heatmaps, value_heatmaps, meters>>
histVars == <<issued, enqueued, flusher>>
ctlVars == <<control_q, calls>>
runVars == <<config, run_pc, window, tsc, window_time, saves, legacy>>
vars == <<senders, data_q, empty_queue, rx_alive,
          interests, allans, counters, gauges, latency_histograms,
          value_histograms, latency_heatmaps, value_heatmaps, meters,
          windows_done, control_q, calls, config, run_pc, window, tsc,
          window_time, saves, legacy, issued, enqueued, flusher, applied, handled, last>>

Op(op, who, arg, ret, outcome) ==
    [op |-> op, who |-> who, arg |-> arg, ret |-> ret, outcome |-> outcome]

(***************************************************************************)
(* Sender (sender.rs)                                                      *)
(***************************************************************************)
\* Sender::new: a fresh, empty buffer
SenderNew(batch_size) == [batch_size |-> batch_size, buffer |-> Some(<<>>)]

\* #[derive(Clone)] on Sender: every field is cloned, the buffer included
SenderClone(sender) == sender

\* what data_tx.try_send can answer in the current state of the channel.
\* "io" is mio_extras' TrySendError::Io: the batch is already in the channel
\* when the readiness notification fails.
TrySendOutcomes ==
    IF ~rx_alive THEN {"disconnected"}
    ELSE IF Len(data_q) >= Capacity THEN {"full"}
    ELSE {"ok", "io"}

\* the buffer the Sender holds after the Ok arm (sender.rs:47-55)
RecycledBuffer == IF empty_queue # <<>> THEN Head(empty_queue) ELSE <<>>

\* a send that forgets the samples the channel refused
BufferDroppedOnRefusal(outcome, buffer) ==
    CASE outcome = "ok" -> Some(RecycledBuffer)
      [] outcome = "io" -> None
      [] OTHER -> Some(<<>>)

\* the buffer field after send's match on the try_send result (sender.rs:46-69)
BufferAfterTrySend(outcome, buffer) ==
    CASE outcome = "ok" -> Some(RecycledBuffer)
      [] outcome = "io" -> None
      [] OTHER -> Some(buffer)

\* Sender::send
Send(s, sample) ==
    LET me == senders[s] IN
    /\ issued' = issued + 1
    /\ IF ~me.buffer.some
       THEN \* self.buffer.take().unwrap() panics
            /\ last' = Op("send", s, sample, "panic", "none")
            /\ UNCHANGED <<senders, data_q, empty_queue, enqueued, flusher>>
       ELSE LET buffer == Append(me.buffer.v, sample) IN
            IF Len(buffer) >= me.batch_size
            THEN \E outcome \in TrySendOutcomes :
                   /\ senders' = [senders EXCEPT
                          ![s].buffer = BufferAfterTrySend(outcome, buffer)]
                   /\ IF outcome \in {"ok", "io"}
                      THEN /\ data_q' = Append(data_q, buffer)
                           /\ enqueued' = Append(enqueued, buffer)
                           /\ flusher' = Append(flusher, s)
                      ELSE UNCHANGED <<data_q, enqueued, flusher>>
                   /\ empty_queue' = IF outcome = "ok" /\ empty_queue # <<>>
                                     THEN Tail(empty_queue) ELSE empty_queue
                   /\ last' = Op("send", s, sample,
                                 IF outcome = "io" THEN "Err" ELSE "Ok", outcome)
            ELSE /\ senders' = [senders EXCEPT ![s].buffer = Some(buffer)]
                 /\ last' = Op("send", s, sample, "Ok", "buffered")
                 /\ UNCHANGED <<data_q, empty_queue, enqueued, flusher>>
    /\ UNCHANGED <<rx_alive, rxVars, windows_done, applied, handled>>

\* the buffer field after try_send (sender.rs:96-103): the else arm returns
\* without putting the taken buffer back
BufferAfterTryPush(fits, buffer, sample) ==
    IF fits THEN Some(Append(buffer, sample)) ELSE None

\* Sender::try_send
TrySend(s, sample) ==
    LET me == senders[s] IN
    /\ issued' = issued + 1
    /\ IF ~me.buffer.some
       THEN /\ last' = Op("try_send", s, sample, "panic", "none")
            /\ UNCHANGED senders
       ELSE LET fits == Len(me.buffer.v) < me.batch_size - 1 IN
            /\ senders' = [senders EXCEPT
                   ![s].buffer = BufferAfterTryPush(fits, me.buffer.v, sample)]
            /\ last' = Op("try_send", s, sample,
                          IF fits THEN "Ok" ELSE "Err", "none")
    /\ UNCHANGED <<data_q, empty_queue, enqueued, flusher, rx_alive, rxVars,
                   windows_done, applied, handled>>

\* a set_batch_size that starts the Sender over with an empty buffer
SetBatchSizeEmptiesBuffer(s, n) ==
    /\ senders' = [senders EXCEPT ![s] = SenderNew(n)]
    /\ last' = Op("set_batch_size", s, NoArg, "Ok", "none")
    /\ UNCHANGED <<data_q, empty_queue, rx_alive, rxVars, windows_done,
                   histVars, applied, handled>>

\* Sender::set_batch_size
SetBatchSize(s, n) ==
    /\ senders' = [senders EXCEPT ![s].batch_size = n]
    /\ last' = Op("set_batch_size", s, NoArg, "Ok", "none")
    /\ UNCHANGED <<data_q, empty_queue, rx_alive, rxVars, windows_done,
                   histVars, applied, handled>>

\* Sender::clone
Clone(s) ==
    /\ Len(senders) < MaxSenders
    /\ senders' = Append(senders, SenderClone(senders[s]))
    /\ last' = Op("clone", s, NoArg, "Ok", "none")
    /\ UNCHANGED <<data_q, empty_queue, rx_alive, rxVars, windows_done,
                   histVars, applied, handled>>

\* Receiver::get_sender
GetSender ==
    /\ rx_alive
    /\ Len(senders) < MaxSenders
    /\ senders' = Append(senders, SenderNew(BatchSize))
    /\ last' = Op("get_sender", 0, NoArg, "Ok", "none")
    /\ UNCHANGED <<data_q, empty_queue, rx_alive, rxVars, windows_done,
                   histVars, applied, handled>>

(***************************************************************************)
(* Per-label maps (src/src/data)                                           *)
(***************************************************************************)
\* FnvHashMap::insert: the value of an existing key is replaced
MapInsert(m, key, v) ==
    [k \in DOMAIN m \cup {key} |-> IF k = key THEN v ELSE m[k]]

\* FnvHashMap::remove
MapRemove(m, key) == [k \in DOMAIN m \ {key} |-> m[k]]

EmptyMap == [k \in {} |-> 0]

\* a Histogram / Heatmap without entries: bucket -> number of entries
EmptyBuckets == [b \in {} |-> 0]

\* Histogram::increment_by / Heatmap::increment_by on one structure
BucketsAdd(h, bucket, count) ==
    [b \in DOMAIN h \cup {bucket} |->
        (IF b \in DOMAIN h THEN h[b] ELSE 0) + (IF b = bucket THEN count ELSE 0)]

RECURSIVE Entries(_)
\* Histogram::entries
Entries(h) ==
    IF DOMAIN h = {} THEN 0
    ELSE LET b == CHOOSE x \in DOMAIN h : TRUE
         IN h[b] + Entries([x \in DOMAIN h \ {b} |-> h[x]])

\* Counters::init
CountersInit(m, key) == MapInsert(m, key, 0)
\* Counters::remove
CountersRemove(m, key) == MapRemove(m, key)
\* an increment that starts a counter for a key it does not find
CountersIncrementOrInsert(m, key, count) ==
    IF key \in DOMAIN m THEN [m EXCEPT ![key] = @ + count]
    ELSE MapInsert(m, key, count)

\* Counters::increment_by
CountersIncrementBy(m, key, count) ==
    IF key \in DOMAIN m THEN [m EXCEPT ![key] = @ + count] ELSE m
\* Counters::count
CountersCount(m, key) == IF key \in DOMAIN m THEN m[key] ELSE 0

\* Gauges::init
GaugesInit(m, key) == MapInsert(m, key, 0)
\* Gauges::remove
GaugesRemove(m, key) == MapRemove(m, key)
\* a gauge that keeps the largest value it was set to
GaugesSetMax(m, key, value) ==
    IF key \in DOMAIN m /\ value > m[key] THEN [m EXCEPT ![key] = value] ELSE m

\* Gauges::set
GaugesSet(m, key, value) ==
    IF key \in DOMAIN m THEN [m EXCEPT ![key] = value] ELSE m
\* Gauges::value
GaugesValue(m, key) == IF key \in DOMAIN m THEN m[key] ELSE 0

\* Histograms::init
HistogramsInit(m, key) == MapInsert(m, key, EmptyBuckets)
\* Histograms::remove
HistogramsRemove(m, key) == MapRemove(m, key)
\* Histograms::increment (increment_by with count 1)
HistogramsIncrement(m, key, duration) ==
    IF key \in DOMAIN m
    THEN [m EXCEPT ![key] = BucketsAdd(@, duration, 1)] ELSE m
\* a clear that leaves the histograms as they are
HistogramsKept(m) == m

\* Histograms::clear
HistogramsClear(m) == [k \in DOMAIN m |-> EmptyBuckets]

RECURSIVE Walk(_, _, _)
\* Histogram::percentile's scan: the first bucket, in increasing order, at
\* which the running total reaches need
Walk(h, have, need) ==
    LET b == CHOOSE x \in DOMAIN h : \A y \in DOMAIN h : x <= y
        now == have + h[b]
    IN IF now >= need \/ DOMAIN h = {b} THEN b
       ELSE Walk([x \in DOMAIN h \ {b} |-> h[x]], now, need)

\* Histograms::percentile; p is the percentile in units of 1/100 percent.
\* [ok |-> FALSE] is Err("no data") (no such key, or a histogram without entries)
HistogramsPercentile(m, key, p) ==
    IF key \notin DOMAIN m \/ Entries(m[key]) < 1
    THEN [ok |-> FALSE, v |-> 0]
    ELSE LET total == Entries(m[key])
             ceil == (total * p + 9999) \div 10000
             need == IF ceil = 0 THEN 1 ELSE ceil
         IN [ok |-> TRUE, v |-> Walk(m[key], 0, need)]

\* Result::unwrap_or(0)
UnwrapOr0(r) == IF r.ok THEN r.v ELSE 0

\* Heatmaps::init
HeatmapsInit(m, key) == MapInsert(m, key, EmptyBuckets)
\* Heatmaps::remove
HeatmapsRemove(m, key) == MapRemove(m, key)
\* Heatmaps::increment: one entry in the slice of `start`, bucket `value`
HeatmapsIncrement(m, key, start, value) ==
    IF key \in DOMAIN m
    THEN [m EXCEPT ![key] = BucketsAdd(@, <<start \div 1000000000, value>>, 1)]
    ELSE m
\* Heatmaps::clear
HeatmapsClear(m) == [k \in DOMAIN m |-> EmptyBuckets]

\* Allans::init.  An Allan accumulator is modelled by the number of values
\* recorded in it.
AllansInit(m, key) == MapInsert(m, key, 0)
\* Allans::remove
AllansRemove(m, key) == MapRemove(m, key)
\* Allans::record
AllansRecord(m, key, value) ==
    IF key \in DOMAIN m THEN [m EXCEPT ![key] = @ + 1] ELSE m
\* Allans::adev: "key not found", "no tau for allan" (tau above max_tau) and
\* "no adev for tau" (fewer than 2 * tau + 1 values recorded) are Err.
AllansAdev(m, key, tau) ==
    IF key \in DOMAIN m /\ tau <= MaxTau /\ m[key] > 2 * tau
    THEN [ok |-> TRUE, v |-> m[key] - 2 * tau]
    ELSE [ok |-> FALSE, v |-> 0]

(***************************************************************************)
(* Meters (src/src/data/meters.rs)                                         *)
(***************************************************************************)
\* Meters::new
MetersNew == [data |-> EmptyMap, data_float |-> EmptyMap]

\* Meters::clear
MetersClear(m) == [m EXCEPT !.data = EmptyMap]

\* Meters::set_count
MetersSetCount(m, channel, value) ==
    [m EXCEPT !.data = MapInsert(@, channel \o "_count", value)]
\* Meters::set_value (the gauge entry)
MetersSetValue(m, channel, value) ==
    [m EXCEPT !.data = MapInsert(@, channel \o "_value", value)]
\* Meters::set_latency_percentile
MetersSetLatencyPercentile(m, channel, percentile, value) ==
    [m EXCEPT !.data =
        MapInsert(@, channel \o "_" \o percentile.name \o "_nanoseconds", value)]
\* Meters::set_value_percentile
MetersSetValuePercentile(m, channel, percentile, value) ==
    [m EXCEPT !.data =
        MapInsert(@, channel \o "_" \o percentile.name \o "_units", value)]
\* Meters::set_adev
MetersSetAdev(m, channel, tau, value) ==
    [m EXCEPT !.data_float =
        MapInsert(@, channel \o "_tau_" \o ToString(tau) \o "_adev", value)]

\* common::default_percentiles; p in units of 1/100 percent
Percentile(name, p) == [name |-> name, p |-> p]
DefaultPercentiles ==
    << Percentile("min", 0), Percentile("p50", 5000), Percentile("p75", 7500),
       Percentile("p90", 9000), Percentile("p95", 9500), Percentile("p99", 9900),
       Percentile("p999", 9990), Percentile("p9999", 9999),
       Percentile("max", 10000) >>

(***************************************************************************)
(* Receiver (src/src/receiver.rs)                                          *)
(***************************************************************************)
\* common::Interest
Interest(kind, key, path) == [kind |-> kind, key |-> key, path |-> path]

LabelKinds ==
    {"AllanDeviation", "Count", "Gauge", "LatencyPercentile", "ValuePercentile"}

\* config.sample_rate (default 1.0)
SampleRate == 1

\* the Receiver's aggregation fields as one value
Rx == [interests |-> interests, allans |-> allans, counters |-> counters,
       gauges |-> gauges, latency_histograms |-> latency_histograms,
       value_histograms |-> value_histograms,
       latency_heatmaps |-> latency_heatmaps,
       value_heatmaps |-> value_heatmaps, meters |-> meters,
       applied |-> applied]

\* the Receiver's aggregation fields become those of r
SetRx(r) ==
    /\ interests' = r.interests
    /\ allans' = r.allans
    /\ counters' = r.counters
    /\ gauges' = r.gauges
    /\ latency_histograms' = r.latency_histograms
    /\ value_histograms' = r.value_histograms
    /\ latency_heatmaps' = r.latency_heatmaps
    /\ value_heatmaps' = r.value_heatmaps
    /\ meters' = r.meters
    /\ applied' = r.applied

\* Receiver::add_interest
AddInterest(r, interest) ==
    LET key == interest.key
        init ==
          CASE interest.kind = "AllanDeviation" ->
                 [r EXCEPT !.allans = AllansInit(@, key)]
            [] interest.kind = "Count" ->
                 [r EXCEPT !.counters = CountersInit(@, key)]
            [] interest.kind = "Gauge" ->
                 [r EXCEPT !.gauges = GaugesInit(@, key)]
            [] interest.kind = "LatencyPercentile" ->
                 [r EXCEPT !.latency_histograms = HistogramsInit(@, key)]
            [] interest.kind = "ValuePercentile" ->
                 [r EXCEPT !.value_histograms = HistogramsInit(@, key)]
            [] interest.kind \in {"LatencyTrace", "LatencyWaterfall"} ->
                 [r EXCEPT !.latency_heatmaps = HeatmapsInit(@, key)]
            [] interest.kind \in {"ValueTrace", "ValueWaterfall"} ->
                 [r EXCEPT !.value_heatmaps = HeatmapsInit(@, key)]
    IN [init EXCEPT !.interests = @ \cup {interest}]

\* a removal that drops the structure but leaves the interest registered
RemoveInterestKeepsInterest(r, interest) ==
    LET key == interest.key IN
    CASE interest.kind = "AllanDeviation" ->
           [r EXCEPT !.allans = AllansRemove(@, key)]
      [] interest.kind = "Count" ->
           [r EXCEPT !.counters = CountersRemove(@, key)]
      [] interest.kind = "Gauge" ->
           [r EXCEPT !.gauges = GaugesRemove(@, key)]
      [] OTHER -> r

\* Receiver::remove_interest
RemoveInterest(r, interest) ==
    LET key == interest.key
        removed ==
          CASE interest.kind = "AllanDeviation" ->
                 [r EXCEPT !.allans = AllansRemove(@, key)]
            [] interest.kind = "Count" ->
                 [r EXCEPT !.counters = CountersRemove(@, key)]
            [] interest.kind = "Gauge" ->
                 [r EXCEPT !.gauges = GaugesRemove(@, key)]
            [] interest.kind = "LatencyPercentile" ->
                 [r EXCEPT !.latency_histograms = HistogramsRemove(@, key)]
            [] interest.kind = "ValuePercentile" ->
                 [r EXCEPT !.value_histograms = HistogramsRemove(@, key)]
            [] interest.kind \in {"LatencyTrace", "LatencyWaterfall"} ->
                 [r EXCEPT !.latency_heatmaps = HeatmapsRemove(@, key)]
            [] interest.kind \in {"ValueTrace", "ValueWaterfall"} ->
                 [r EXCEPT !.value_heatmaps = HeatmapsRemove(@, key)]
    IN [removed EXCEPT !.interests = @ \ {interest}]

\* Clocksource::convert: counter ticks to nanoseconds
Convert(ticks) == ticks \div Frequency

\* `x as u64` of a float: values below zero saturate to 0
AsU64(x) == IF x < 0 THEN 0 ELSE x

\* Sample::value: the gauge reading carried in the count field
SampleValue(sample) == sample.count

\* a loop body that weights the histograms by the sample's count as well
ApplySampleWeighted(r, result) ==
    LET t0 == Convert(result.start)
        t1 == Convert(result.stop)
        dt == t1 - t0
        metric == result.channel
        weigh(m, bucket) ==
            IF metric \in DOMAIN m
            THEN [m EXCEPT ![metric] = BucketsAdd(@, bucket, result.count)]
            ELSE m
    IN [r EXCEPT
          !.allans = AllansRecord(@, metric, dt),
          !.gauges = GaugesSet(@, metric, SampleValue(result)),
          !.counters = CountersIncrementBy(@, metric, result.count),
          !.latency_histograms = weigh(@, AsU64(dt)),
          !.value_histograms = weigh(@, result.count),
          !.latency_heatmaps = HeatmapsIncrement(@, metric, AsU64(t0), AsU64(dt)),
          !.value_heatmaps = HeatmapsIncrement(@, metric, AsU64(t0), result.count),
          !.applied = Append(@, result.id)]

\* the body of run_once's loop over a batch (receiver.rs:235-260)
ApplySample(r, result) ==
    LET t0 == Convert(result.start)
        t1 == Convert(result.stop)
        dt == t1 - t0
        metric == result.channel
    IN [r EXCEPT
          !.allans = AllansRecord(@, metric, dt),
          !.gauges = GaugesSet(@, metric, SampleValue(result)),
          !.counters = CountersIncrementBy(@, metric, result.count),
          !.latency_histograms = HistogramsIncrement(@, metric, AsU64(dt)),
          !.value_histograms = HistogramsIncrement(@, metric, result.count),
          !.latency_heatmaps = HeatmapsIncrement(@, metric, AsU64(t0), AsU64(dt)),
          !.value_heatmaps = HeatmapsIncrement(@, metric, AsU64(t0), result.count),
          !.applied = Append(@, result.id)]

RECURSIVE ApplyBatchButLast(_, _)
\* a loop that stops one sample early
ApplyBatchButLast(r, results) ==
    IF Len(results) <= 1 THEN r
    ELSE ApplyBatchButLast(ApplySample(r, Head(results)), Tail(results))

RECURSIVE ApplyBatchReversed(_, _)
\* a loop that walks the batch from its last sample to its first
ApplyBatchReversed(r, results) ==
    IF results = <<>> THEN r
    ELSE ApplySample(ApplyBatchReversed(r, Tail(results)), Head(results))

RECURSIVE ApplyBatch(_, _)
\* `for result in &results` (receiver.rs:235)
ApplyBatch(r, results) ==
    IF results = <<>> THEN r
    ELSE ApplyBatch(ApplySample(r, Head(results)), Tail(results))

\* the value check_elapsed writes into Meters for one interest
\* (receiver.rs:293-338)
RECURSIVE SetLatencyPercentiles(_, _, _, _)
SetLatencyPercentiles(m, r, key, percentiles) ==
    IF percentiles = <<>> THEN m
    ELSE LET percentile == Head(percentiles)
         IN SetLatencyPercentiles(
              MetersSetLatencyPercentile(m, key, percentile,
                UnwrapOr0(HistogramsPercentile(r.latency_histograms, key,
                                               percentile.p))),
              r, key, Tail(percentiles))

RECURSIVE SetValuePercentiles(_, _, _, _)
SetValuePercentiles(m, r, key, percentiles) ==
    IF percentiles = <<>> THEN m
    ELSE LET percentile == Head(percentiles)
         IN SetValuePercentiles(
              MetersSetValuePercentile(m, key, percentile,
                UnwrapOr0(HistogramsPercentile(r.value_histograms, key,
                                               percentile.p)) * SampleRate),
              r, key, Tail(percentiles))

\* the taus of common::default_taus for which Allans::adev answers Ok
TausWithAdev(r, key) ==
    {tau \in 1 .. LastDefaultTau : AllansAdev(r.allans, key, tau).ok}

RECURSIVE SetAdevs(_, _, _, _)
\* `for tau in self.taus.clone()`: an entry is written when adev is Ok
SetAdevs(m, r, key, taus) ==
    IF taus = {} THEN m
    ELSE LET tau == CHOOSE t \in taus : \A u \in taus : t <= u
         IN SetAdevs(MetersSetAdev(m, key, tau, AllansAdev(r.allans, key, tau).v),
                     r, key, taus \ {tau})

\* an iteration that reports the label's gauge along with its count
SetMeterWithGauge(m, r, interest) ==
    CASE interest.kind = "Count" ->
           MetersSetValue(
             MetersSetCount(m, interest.key, CountersCount(r.counters, interest.key)),
             interest.key, GaugesValue(r.gauges, interest.key))
      [] interest.kind = "Gauge" ->
           MetersSetValue(m, interest.key, GaugesValue(r.gauges, interest.key))
      [] OTHER -> m

\* one iteration of `for interest in &self.interests` in check_elapsed
SetMeter(m, r, interest) ==
    CASE interest.kind = "Count" ->
           MetersSetCount(m, interest.key, CountersCount(r.counters, interest.key))
      [] interest.kind = "Gauge" ->
           MetersSetValue(m, interest.key, GaugesValue(r.gauges, interest.key))
      [] interest.kind = "LatencyPercentile" ->
           SetLatencyPercentiles(m, r, interest.key, DefaultPercentiles)
      [] interest.kind = "ValuePercentile" ->
           SetValuePercentiles(m, r, interest.key, DefaultPercentiles)
      [] interest.kind = "AllanDeviation" ->
           SetAdevs(m, r, interest.key, TausWithAdev(r, interest.key))
      [] OTHER -> m

RECURSIVE SetMeters(_, _, _)
SetMeters(m, r, todo) ==
    IF todo = {} THEN m
    ELSE LET interest == CHOOSE i \in todo : TRUE
         IN SetMeters(SetMeter(m, r, interest), r, todo \ {interest})

\* a boundary that also starts the counters again from zero
WindowRefreshResetsCounters(r) ==
    LET cleared == MetersClear(r.meters)
    IN [r EXCEPT
          !.meters = SetMeters(cleared, r, r.interests),
          !.counters = [k \in DOMAIN @ |-> 0],
          !.latency_histograms = HistogramsClear(@),
          !.value_histograms = HistogramsClear(@)]

\* check_elapsed when the counter has reached the deadline
\* (receiver.rs:290-345)
WindowRefresh(r) ==
    LET cleared == MetersClear(r.meters)
    IN [r EXCEPT
          !.meters = SetMeters(cleared, r, r.interests),
          !.latency_histograms = HistogramsClear(@),
          !.value_histograms = HistogramsClear(@)]

\* data_rx.try_recv() on a channel that holds a message
TryRecv(q) == [msg |-> Head(q), rest |-> Tail(q)]

\* a Receiver that hands the batch back to the pool as it is
RecycleUncleared(pool, results) ==
    IF Len(pool) < Capacity THEN Append(pool, results) ELSE pool

\* results.clear(); empty_queue.push(results): dropped when the pool is full
Recycle(pool, results) ==
    IF Len(pool) < Capacity THEN Append(pool, <<>>) ELSE pool

\* the Data arm of run_once for the batch `results` (receiver.rs:233-264)
DataEventOf(results) ==
    /\ SetRx(ApplyBatch(Rx, results))
    /\ empty_queue' = Recycle(empty_queue, results)
    /\ handled' = [handled EXCEPT !.batches = @ + 1]
    /\ last' = Op("data", 0, NoArg, "Ok", "none")
    /\ UNCHANGED <<senders, rx_alive, windows_done, histVars>>

\* the Data arm of run_once, reading the data channel
DataEvent ==
    /\ rx_alive
    /\ data_q # <<>>
    /\ DataEventOf(TryRecv(data_q).msg)
    /\ data_q' = TryRecv(data_q).rest

\* the Control arm of run_once for AddInterest / RemoveInterest
\* (receiver.rs:265-273)
ControlArm(msg) ==
    /\ SetRx(IF msg.type = "AddInterest"
             THEN AddInterest(Rx, msg.interest)
             ELSE RemoveInterest(Rx, msg.interest))
    /\ handled' = [handled EXCEPT
           !.ctl = @ + 1,
           !.added = IF msg.type = "AddInterest" THEN @ \cup {msg.interest} ELSE @,
           !.since = IF msg.type = "AddInterest"
                     THEN MapInsert(@, msg.interest, Len(applied)) ELSE @]
    /\ last' = Op(msg.type, 0, msg.interest, "Ok", "none")
    /\ UNCHANGED <<chanVars, windows_done, histVars>>

\* the same, for at most MaxCtl control messages
ControlEventOf(msg) ==
    /\ handled.ctl < MaxCtl
    /\ ControlArm(msg)

\* check_elapsed returning true: the window-boundary procedure
WindowBoundary ==
    /\ windows_done < MaxWindows
    /\ SetRx(WindowRefresh(Rx))
    /\ windows_done' = windows_done + 1
    /\ handled' = [handled EXCEPT !.boundaries = Append(@, Len(applied))]
    /\ last' = Op("window", 0, NoArg, "Ok", "none")
    /\ UNCHANGED <<chanVars, histVars>>

\* the Receiver is dropped: the batches still in the channel go with it
DropReceiver ==
    /\ rx_alive
    /\ rx_alive' = FALSE
    /\ data_q' = <<>>
    /\ last' = Op("drop", 0, NoArg, "Ok", "none")
    /\ UNCHANGED <<senders, empty_queue, rxVars, windows_done, histVars,
                   applied, handled>>

(***************************************************************************)
(* Inputs                                                                  *)
(***************************************************************************)
\* the sample a producer passes to send / try_send
NewSample == Sample(issued + 1, "a", 0, 4, 1)

\* the samples of the batches in the aggregation specifications
SampleInputs == {Sample(0, "a", 0, 4, 1), Sample(0, "b", 0, 8, 3)}

RECURSIVE SeqsOfLen(_, _)
SeqsOfLen(S, n) ==
    IF n = 0 THEN {<<>>}
    ELSE {Append(q, x) : q \in SeqsOfLen(S, n - 1), x \in S}

\* a Sender flushes its buffer when it holds batch_size samples
BatchInputs == SeqsOfLen(SampleInputs, BatchSize)

InterestInputs ==
    {Interest(k, "a", "") : k \in LabelKinds}
    \cup {Interest("Count", "b", "")}
    \cup {Interest("LatencyTrace", "a", "p1"), Interest("LatencyWaterfall", "a", "p2")}

ControlInputs ==
    {[type |-> t, interest |-> i] :
        t \in {"AddInterest", "RemoveInterest"}, i \in InterestInputs}

(***************************************************************************)
(* Specifications                                                          *)
(***************************************************************************)
\* Config::default, with the model's number of windows
DefaultConfig ==
    [windows |-> MaxRunWindows, service_mode |-> FALSE, poll_delay |-> "None"]

\* ---------------------------------------------------------------------
\* The queue-based Receiver of lib.rs
\* ---------------------------------------------------------------------
\* bounds of the legacy run: the windows asked for, the clock, the samples
MaxLegacyWindows == 3
MaxLegacyClock == 4
MaxLegacyStats == 3

\* Queue::with_capacity(8) in Receiver::configured
LegacyQueueCapacity == 8

\* Config::duration, in clock ticks
LegacyDuration == 1

\* no queue-based Receiver has been constructed
LegacyNone ==
    [pc |-> "none", windows |-> 0, window |-> 0, t0 |-> 0, now |-> 0,
     queue |-> 0, total |-> 0, sent |-> 0, rollovers |-> 0, saved |-> FALSE]

\* Config::windows(W) and Receiver::configured: the queue is empty
LegacyConfigured(W) ==
    /\ legacy.pc = "none"
    /\ legacy' = [legacy EXCEPT !.pc = "ready", !.windows = W]
    /\ last' = Op("legacy_configured", 0, W, "Ok", "none")

\* Sender::send of lib.rs: queue.push, refused when the queue is full
LegacySend ==
    /\ legacy.pc \in {"ready", "loop"}
    /\ legacy.sent < MaxLegacyStats
    /\ IF legacy.queue < LegacyQueueCapacity
       THEN /\ legacy' = [legacy EXCEPT !.queue = @ + 1, !.sent = @ + 1]
            /\ last' = Op("legacy_send", 0, NoArg, "Ok", "none")
       ELSE /\ legacy' = [legacy EXCEPT !.sent = @ + 1]
            /\ last' = Op("legacy_send", 0, NoArg, "Err", "full")

\* Receiver::run up to its loop: t0 = Instant::now(), window = 1
LegacyRun ==
    /\ legacy.pc = "ready"
    /\ legacy' = [legacy EXCEPT !.pc = "loop", !.window = 1, !.t0 = legacy.now]
    /\ last' = Op("legacy_run", 0, NoArg, "Ok", "none")

\* the roll-over test of the loop: the elapsed whole seconds reach duration
LegacyElapsed == legacy.now - legacy.t0 >= LegacyDuration

\* the exit test after a roll-over; window is already incremented
LegacyLastWindow(w) == w >= legacy.windows

\* one iteration of the loop of Receiver::run: pop at most one Stat, then
\* roll the window over if it has elapsed, and save and break after the
\* roll-over that brings window to windows
LegacyIterate ==
    /\ legacy.pc = "loop"
    /\ LET popped == legacy.queue > 0
           total == IF popped THEN legacy.total + 1 ELSE legacy.total
           queue == IF popped THEN legacy.queue - 1 ELSE legacy.queue
       IN IF LegacyElapsed
          THEN LET w == legacy.window + 1
                   done == LegacyLastWindow(w)
               IN /\ legacy' = [legacy EXCEPT
                                   !.queue = queue,
                                   !.total = 0,
                                   !.window = w,
                                   !.t0 = legacy.now,
                                   !.rollovers = @ + 1,
                                   !.saved = done,
                                   !.pc = IF done THEN "returned" ELSE "loop"]
                  /\ last' = Op("legacy_rollover", 0, w, "Ok",
                                IF done THEN "break" ELSE "none")
          ELSE /\ popped
               /\ legacy' = [legacy EXCEPT !.queue = queue, !.total = total]
               /\ last' = Op("legacy_pop", 0, NoArg, "Ok", "none")

\* Instant::now advances by one second
LegacyTick ==
    /\ legacy.pc \in {"ready", "loop"}
    /\ legacy.now < MaxLegacyClock
    /\ legacy' = [legacy EXCEPT !.now = @ + 1]
    /\ last' = Op("legacy_tick", 0, NoArg, "Ok", "none")

\* clocksource.counter() at Receiver::configured and the length of a window,
\* in the unit of tsc (receiver.rs:77-79)
StartTime == 0
WindowDuration == 1

\* Receiver::configured: empty maps, a pre-filled pool, no Sender yet
Configured(cfg) ==
    /\ config = cfg
    /\ control_q = <<>>
    /\ calls = <<>>
    /\ run_pc = "ready"
    /\ window = 0
    /\ tsc = StartTime
    /\ window_time = StartTime + WindowDuration
    /\ saves = <<>>
    /\ legacy = LegacyNone
    /\ senders = <<>>
    /\ data_q = <<>>
    /\ empty_queue = [n \in 1 .. Capacity |-> <<>>]
    /\ rx_alive = TRUE
    /\ interests = {}
    /\ allans = EmptyMap
    /\ counters = EmptyMap
    /\ gauges = EmptyMap
    /\ latency_histograms = EmptyMap
    /\ value_histograms = EmptyMap
    /\ latency_heatmaps = EmptyMap
    /\ value_heatmaps = EmptyMap
    /\ meters = MetersNew
    /\ windows_done = 0
    /\ issued = 0
    /\ enqueued = <<>>
    /\ flusher = <<>>
    /\ applied = <<>>
    /\ handled = [ctl |-> 0, batches |-> 0, added |-> {}, since |-> EmptyMap,
                  boundaries |-> <<>>]
    /\ last = Op("new", 0, NoArg, "Ok", "none")

Init == Configured(DefaultConfig)

SenderIds == 1 .. Len(senders)

\* the producers' calls
SenderCall ==
    \E s \in 1 .. Len(senders) :
        \/ issued < MaxIssued /\ Send(s, NewSample)
        \/ issued < MaxIssued /\ TrySend(s, NewSample)
        \/ \E n \in {1, BatchSize} : SetBatchSize(s, n)
        \/ Clone(s)

\* Senders, data channel, buffer pool and the Receiver draining the channel
SenderNext ==
    \/ SenderCall /\ UNCHANGED <<ctlVars, runVars>>
    \/ GetSender /\ UNCHANGED <<ctlVars, runVars>>
    \/ DataEvent /\ UNCHANGED <<ctlVars, runVars>>
    \/ DropReceiver /\ UNCHANGED <<ctlVars, runVars>>
SenderSpec == Init /\ [][SenderNext]_vars

\* the Receiver handling batches, control messages and window boundaries
DataInput ==
    \E results \in BatchInputs :
        /\ handled.batches < MaxBatches
        /\ DataEventOf(results)
        /\ UNCHANGED data_q

ControlInput == \E msg \in ControlInputs : ControlEventOf(msg)

AggNext ==
    \/ DataInput /\ UNCHANGED <<ctlVars, runVars>>
    \/ ControlInput /\ UNCHANGED <<ctlVars, runVars>>
    \/ WindowBoundary /\ UNCHANGED <<ctlVars, runVars>>
AggSpec == Init /\ [][AggNext]_vars

\* the samples of the meter specification; the id names the input, so that
\* `applied` tells which samples were applied, in order
MeterSamples ==
    << Sample(1, "a", 0, 4, 5), Sample(2, "a", 0, 4, 7), Sample(3, "b", 0, 8, 3) >>

MeterBatches ==
    SeqsOfLen({MeterSamples[n] : n \in DOMAIN MeterSamples}, BatchSize)

MeterInterests ==
    {Interest("Gauge", "a", ""), Interest("Count", "a", ""),
     Interest("Count", "b", ""), Interest("LatencyPercentile", "a", "")}

MeterDataInput ==
    \E results \in MeterBatches :
        /\ handled.batches < MaxBatches
        /\ DataEventOf(results)
        /\ UNCHANGED data_q

MeterControlInput ==
    \E t \in {"AddInterest", "RemoveInterest"}, i \in MeterInterests :
        ControlEventOf([type |-> t, interest |-> i])

\* the Receiver handling batches of samples that differ in label and count
MeterNext ==
    \/ MeterDataInput /\ UNCHANGED <<ctlVars, runVars>>
    \/ MeterControlInput /\ UNCHANGED <<ctlVars, runVars>>
    \/ WindowBoundary /\ UNCHANGED <<ctlVars, runVars>>
MeterSpec == Init /\ [][MeterNext]_vars

\* the same, without RemoveInterest messages
AddOnlyInput ==
    \E msg \in ControlInputs : msg.type = "AddInterest" /\ ControlEventOf(msg)

AggAddOnlyNext ==
    \/ DataInput /\ UNCHANGED <<ctlVars, runVars>>
    \/ AddOnlyInput /\ UNCHANGED <<ctlVars, runVars>>
    \/ WindowBoundary /\ UNCHANGED <<ctlVars, runVars>>
AggAddOnlySpec == Init /\ [][AggAddOnlyNext]_vars

(***************************************************************************)
(* Controller (controller.rs)                                              *)
(***************************************************************************)
\* ControlMessage::SnapshotMeters(tx): reply names the get_meters call whose
\* reply channel tx belongs to
SnapshotMeters(reply) == [type |-> "SnapshotMeters", reply |-> reply]

\* io::Error values get_meters answers (controller.rs:29-45); Io is the
\* error of the failed readiness notification, handed on as it is
GetMetersError(cause) ==
    CASE cause = "closed" ->
           [ok |-> FALSE, kind |-> "Other", msg |-> "failed to receive snapshot"]
      [] cause \in {"full", "disconnected"} ->
           [ok |-> FALSE, kind |-> "Other", msg |-> "failed to send snapshot command"]
      [] cause = "io" ->
           [ok |-> FALSE, kind |-> "Os", msg |-> "io error"]

\* what control_tx.try_send can answer in the current state of the channel
ControlTrySendOutcomes ==
    IF ~rx_alive THEN {"disconnected"}
    ELSE IF Len(control_q) >= Capacity THEN {"full"}
    ELSE {"ok", "io"}

\* Controller::get_meters up to rx.recv(): the reply channel is created and
\* the message offered to the control channel (controller.rs:22-25, 35-47)
GetMetersCall ==
    /\ Len(calls) < MaxCalls
    /\ \E outcome \in ControlTrySendOutcomes :
         LET c == Len(calls) + 1
             accepted == outcome \in {"ok", "io"}
         IN /\ control_q' = IF accepted
                            THEN Append(control_q, SnapshotMeters(c)) ELSE control_q
            /\ calls' = Append(calls,
                 [state |-> IF outcome = "ok" THEN "waiting" ELSE "returned",
                  cause |-> IF outcome = "ok" THEN "none" ELSE outcome,
                  ret |-> IF outcome = "ok" THEN [ok |-> FALSE, kind |-> "none", msg |-> ""]
                          ELSE GetMetersError(outcome),
                  rx |-> outcome = "ok",
                  tx |-> IF accepted THEN "queued" ELSE "dropped",
                  slot |-> None,
                  issued |-> issued,
                  counted |-> /\ Interest("Count", "a", "") \in interests
                              /\ CountersCount(counters, "a") = Len(applied)])
            /\ last' = Op("get_meters", c, NoArg,
                          IF outcome = "ok" THEN "none" ELSE "Err", outcome)
    /\ UNCHANGED <<chanVars, rxVars, windows_done, histVars, applied, handled>>

\* Controller::get_meters at rx.recv() (controller.rs:27-33): the reply, or
\* an error once the reply sender is gone; it blocks otherwise
GetMetersRecv(c) ==
    /\ calls[c].state = "waiting"
    /\ \/ /\ calls[c].slot.some
          /\ calls' = [calls EXCEPT
                 ![c].state = "returned",
                 ![c].ret = [ok |-> TRUE, meters |-> calls[c].slot.v],
                 ![c].slot = None,
                 ![c].rx = FALSE]
          /\ last' = Op("recv", c, NoArg, "Ok", "none")
       \/ /\ ~calls[c].slot.some
          /\ calls[c].tx = "dropped"
          /\ calls' = [calls EXCEPT
                 ![c].state = "returned",
                 ![c].cause = "closed",
                 ![c].ret = GetMetersError("closed"),
                 ![c].rx = FALSE]
          /\ last' = Op("recv", c, NoArg, "Err", "closed")
    /\ UNCHANGED <<chanVars, rxVars, windows_done, histVars, applied, handled,
                   control_q>>

\* Sender::add_interest / remove_interest: a blocking send on the control
\* channel (sender.rs:77-86).  The call waits while the channel is full; the
\* error of a disconnected channel is discarded (`let _ =`)
SendInterest(msg) ==
    /\ senders # <<>>
    /\ IF rx_alive
       THEN /\ Len(control_q) < Capacity
            /\ control_q' = Append(control_q, msg)
            /\ last' = Op("send_interest", 0, msg.interest, "Ok", "none")
       ELSE /\ control_q' = control_q
            /\ last' = Op("send_interest", 0, msg.interest, "Ok", "disconnected")
    /\ UNCHANGED <<chanVars, rxVars, windows_done, histVars, applied, handled,
                   calls>>

\* a snapshot that is always empty
CloneMetersEmpty(r) == MetersNew

\* Receiver::clone_meters
CloneMeters(r) == r.meters

(***************************************************************************)
(* Receiver::run and run_once as a loop (receiver.rs:218-284, 350-371)     *)
(***************************************************************************)
\* an inner loop that runs one window too many
InnerLoopDoneLate(w, windows) == w > windows

\* `if window >= self.config.windows { break 'inner; }` (receiver.rs:357)
InnerLoopDone(w, windows) == w >= windows

\* the owner calls Receiver::run
RunCall ==
    /\ rx_alive
    /\ run_pc = "ready"
    /\ run_pc' = "check"
    /\ window' = 0
    /\ last' = Op("run", 0, NoArg, "none", "none")
    /\ UNCHANGED <<chanVars, rxVars, windows_done, histVars, applied, handled,
                   ctlVars, config, tsc, window_time, saves, legacy>>

\* a deadline that is counted from the moment the boundary fired
WindowTimeFromNow(deadline, now) == now + WindowDuration

\* `self.window_time += self.window_duration` (receiver.rs:343)
NextWindowTime(deadline, now) == deadline + WindowDuration

\* the top of run_once's loop: check_elapsed.  When the deadline has passed
\* the window-boundary procedure runs, run_once returns and run counts the
\* window (receiver.rs:224-226, 288-347, 355-359)
CheckElapsed ==
    /\ rx_alive
    /\ run_pc = "check"
    /\ IF tsc >= window_time
       THEN /\ SetRx(WindowRefresh(Rx))
            /\ window_time' = NextWindowTime(window_time, tsc)
            /\ windows_done' = windows_done + 1
            /\ window' = window + 1
            /\ handled' = [handled EXCEPT !.boundaries = Append(@, Len(applied))]
            /\ run_pc' = IF InnerLoopDone(window + 1, config.windows)
                         THEN "save" ELSE "check"
            /\ last' = Op("window", 0, NoArg, "Ok", "none")
       ELSE /\ run_pc' = "poll"
            /\ last' = Op("poll", 0, NoArg, "none", "none")
            /\ UNCHANGED <<rxVars, applied, window_time, windows_done, window,
                           handled>>
    /\ UNCHANGED <<chanVars, histVars, ctlVars, config, tsc, saves, legacy>>

\* the channels are registered level-triggered (receiver.rs:86-97): poll
\* returns one event for every token whose channel holds a message, and
\* `for event in events.iter()` handles them all before check_elapsed runs
\* again.  run_pc is "poll" in poll, and "data" or "control" when the first
\* event has been handled and the event of that token is still to come.

\* an iteration that handles the events one at a time, each followed by
\* check_elapsed
AfterEventReturns(pc, other, pending) == "check"

\* where the loop is after an event: at the other token's event if poll
\* returned one, else back at check_elapsed
AfterEvent(pc, other, pending) ==
    IF pc = "poll" /\ pending THEN other ELSE "check"

\* the Data event of a poll iteration (receiver.rs:233-264)
PollData ==
    /\ run_pc \in {"poll", "data"}
    /\ DataEvent
    /\ run_pc' = AfterEvent(run_pc, "control", control_q # <<>>)
    /\ UNCHANGED <<ctlVars, config, window, tsc, window_time, saves, legacy>>

\* the Control arm of run_once for SnapshotMeters (receiver.rs:274-277):
\* tx.send(meters).unwrap() panics when the requester has dropped the
\* reply receiver
SnapshotEventOf(c) ==
    /\ IF calls[c].rx
       THEN /\ calls' = [calls EXCEPT
                   ![c].slot = Some(CloneMeters(Rx)), ![c].tx = "dropped"]
            /\ run_pc' = AfterEvent(run_pc, "data", data_q # <<>>)
            /\ last' = Op("SnapshotMeters", c, NoArg, "Ok", "none")
       ELSE /\ calls' = [calls EXCEPT ![c].tx = "dropped"]
            /\ run_pc' = "panicked"
            /\ last' = Op("SnapshotMeters", c, NoArg, "panic", "none")
    /\ UNCHANGED <<chanVars, rxVars, windows_done, histVars, applied, handled>>

\* the Control event of a poll iteration (receiver.rs:265-280)
PollControl ==
    /\ rx_alive
    /\ run_pc \in {"poll", "control"}
    /\ control_q # <<>>
    /\ control_q' = Tail(control_q)
    /\ LET msg == Head(control_q) IN
       IF msg.type = "SnapshotMeters"
       THEN SnapshotEventOf(msg.reply)
       ELSE /\ ControlEventOf(msg)
            /\ run_pc' = AfterEvent(run_pc, "data", data_q # <<>>)
            /\ UNCHANGED calls
    /\ UNCHANGED <<config, window, tsc, window_time, saves, legacy>>

\* poll returns without events when poll_delay is set (receiver.rs:229)
PollTimeout ==
    /\ rx_alive
    /\ run_pc = "poll"
    /\ config.poll_delay = "Some"
    /\ data_q = <<>>
    /\ control_q = <<>>
    /\ run_pc' = "check"
    /\ last' = Op("timeout", 0, NoArg, "none", "none")
    /\ UNCHANGED <<chanVars, rxVars, windows_done, histVars, applied, handled,
                   ctlVars, config, window, tsc, window_time, saves, legacy>>

\* run after the inner loop: save_files, then return or, in service mode,
\* clear_heatmaps and go round again (receiver.rs:362-369)
SaveFiles ==
    /\ rx_alive
    /\ run_pc = "save"
    /\ saves' = Append(saves, windows_done)
    /\ IF config.service_mode
       THEN /\ latency_heatmaps' = HeatmapsClear(latency_heatmaps)
            /\ value_heatmaps' = HeatmapsClear(value_heatmaps)
            /\ run_pc' = "check"
       ELSE /\ run_pc' = "returned"
            /\ UNCHANGED <<latency_heatmaps, value_heatmaps>>
    /\ last' = Op("save_files", 0, NoArg, "Ok", "none")
    /\ UNCHANGED <<chanVars, interests, allans, counters, gauges,
                   latency_histograms, value_histograms, meters, windows_done,
                   histVars, applied, handled, ctlVars, config, window, tsc,
                   window_time, legacy>>

\* the clocksource counter advances by one window duration; it is read by
\* check_elapsed only, so it is left alone outside run_once
Tick ==
    /\ run_pc \in {"check", "poll"}
    /\ tsc < MaxTsc
    /\ tsc' = tsc + 1
    /\ last' = Op("tick", 0, NoArg, "none", "none")
    /\ UNCHANGED <<chanVars, rxVars, windows_done, histVars, applied, handled,
                   ctlVars, config, run_pc, window, window_time, saves, legacy>>

\* the reply senders held by messages of a dropped control channel
DroppedReplies ==
    [c \in DOMAIN calls |->
        IF calls[c].tx = "queued" THEN [calls[c] EXCEPT !.tx = "dropped"]
        ELSE calls[c]]

\* the owner drops the Receiver, outside run, with its control channel
DropIdleReceiver ==
    /\ run_pc \in {"ready", "returned", "panicked"}
    /\ DropReceiver
    /\ control_q' = <<>>
    /\ calls' = DroppedReplies
    /\ UNCHANGED runVars

\* the configurations of the run-loop specifications; windows is a usize
\* that neither Config nor Receiver::configured checks
Configs ==
    [windows : 0 .. MaxRunWindows, service_mode : BOOLEAN,
     poll_delay : {"Some", "None"}]

\* the control messages the Senders pass on in the run-loop specifications
RunControlInputs ==
    {[type |-> "AddInterest", interest |-> Interest("Count", "a", "")],
     [type |-> "AddInterest", interest |-> Interest("LatencyTrace", "a", "p1")],
     [type |-> "RemoveInterest", interest |-> Interest("Count", "a", "")]}

\* AddInterest / RemoveInterest messages sent and not yet handled
PendingInterests ==
    Len(SelectSeq(control_q, LAMBDA m : m.type # "SnapshotMeters"))

RunInit == \E cfg \in Configs : Configured(cfg)

\* the steps of the Receiver's thread inside run
ReceiverStep ==
    CheckElapsed \/ PollData \/ PollControl \/ PollTimeout \/ SaveFiles

\* one producer and its samples
Producer ==
    \/ senders = <<>> /\ GetSender
    \/ \E s \in SenderIds : issued < MaxIssued /\ Send(s, NewSample)

\* the producer registers and removes interests
InterestTraffic ==
    \E msg \in RunControlInputs :
        handled.ctl + PendingInterests < MaxCtl /\ SendInterest(msg)

\* a producer, the clock and the Receiver inside run, for every configuration
RunNext ==
    \/ Producer /\ UNCHANGED <<ctlVars, runVars>>
    \/ InterestTraffic /\ UNCHANGED runVars
    \/ RunCall
    \/ ReceiverStep
    \/ Tick
    \/ DropIdleReceiver

RunSpec == RunInit /\ [][RunNext]_vars

\* the Receiver's thread is scheduled; nothing obliges the producer or the
\* owner to act
RunFairSpec == RunSpec /\ WF_vars(ReceiverStep)

\* a terminating run, with and without a poll timeout
CtlInit ==
    \E delay \in {"Some", "None"} :
        Configured([windows |-> MaxRunWindows, service_mode |-> FALSE,
                    poll_delay |-> delay])

\* the steps of a thread blocked in get_meters
CallerStep == (\E c \in DOMAIN calls : GetMetersRecv(c)) /\ UNCHANGED runVars

\* the producer registers the Count interest of its label
CountTraffic ==
    /\ handled.ctl + PendingInterests < MaxCtl
    /\ SendInterest([type |-> "AddInterest", interest |-> Interest("Count", "a", "")])

\* a producer, Controller callers, the clock and the Receiver
CtlNext ==
    \/ Producer /\ UNCHANGED <<ctlVars, runVars>>
    \/ CountTraffic /\ UNCHANGED runVars
    \/ GetMetersCall /\ UNCHANGED runVars
    \/ CallerStep
    \/ RunCall
    \/ ReceiverStep
    \/ Tick
    \/ DropIdleReceiver

CtlSpec == CtlInit /\ [][CtlNext]_vars

\* the Receiver's thread and a caller blocked in recv are scheduled; nothing
\* obliges producers or callers to act.  The owner calls run, and the
\* unwinding of a panic in run drops the Receiver.
CtlFairSpec ==
    /\ CtlSpec
    /\ WF_vars(ReceiverStep)
    /\ WF_vars(CallerStep)
    /\ WF_vars(RunCall)
    /\ WF_vars(run_pc = "panicked" /\ DropIdleReceiver)

\* the producers of the backpressure specification: Senders handed out by
\* get_sender or cloned, their batch_size the configured one
BackpressureProducer ==
    \/ GetSender
    \/ \E s \in SenderIds : Clone(s)
    \/ \E s \in SenderIds : issued < MaxBacklog /\ Send(s, NewSample)

\* producers that outrun the Receiver: the Receiver takes a batch whenever
\* it gets to poll, and between two polls the channel can fill up
BackpressureNext ==
    \/ BackpressureProducer /\ UNCHANGED <<ctlVars, runVars>>
    \/ DataEvent /\ UNCHANGED <<ctlVars, runVars>>

BackpressureSpec == Init /\ [][BackpressureNext]_vars

\* the Receiver polls: a batch in the channel is eventually taken.  Nothing
\* obliges a producer to call send again.
BackpressureFairSpec ==
    BackpressureSpec /\ WF_vars(DataEvent /\ UNCHANGED <<ctlVars, runVars>>)

(***************************************************************************)
(* Properties                                                              *)
(***************************************************************************)
Ids(samples) == [n \in 1 .. Len(samples) |-> samples[n].id]

\* C1: for any interleaving of send calls and Receiver data events, the
\* samples the Receiver has applied are exactly the samples of the batches
\* it has dequeued, batch by batch in channel order, each once: the applied
\* samples followed by those still in the channel are the samples of all
\* accepted batches, so no batch is dequeued twice and no sample of a
\* dequeued batch is applied twice or skipped.
C1_AppliedExactlyOnce ==
    LET all == Ids(Flatten(enqueued)) IN
    /\ Len(applied) <= Len(all)
    /\ applied = SubSeq(all, 1, Len(applied))
    /\ rx_alive => applied \o Ids(Flatten(data_q)) = all

\* two Senders exist, a whole batch has been applied and another accepted
\* batch is still in the channel
C1_Witness ==
    /\ Len(senders) >= 2
    /\ Len(applied) >= BatchSize
    /\ data_q # <<>>
    /\ rx_alive

\* C2: a send that reaches batch_size and finds the channel full or
\* disconnected returns Ok, enqueues nothing and keeps the buffered samples
\* plus the new one, in order; and a send on a buffer that already holds
\* batch_size samples or more attempts the enqueue again, the batch accepted
\* being all retained samples plus the new one.
C2_RetainAndRetry ==
    [][ /\ (last'.op = "send" /\ last'.outcome \in {"full", "disconnected"}) =>
             /\ last'.ret = "Ok"
             /\ data_q' = data_q
             /\ enqueued' = enqueued
             /\ senders'[last'.who].buffer =
                  Some(Append(senders[last'.who].buffer.v, last'.arg))
        /\ (/\ last'.op = "send"
            /\ issued' = issued + 1
            /\ senders[last'.who].buffer.some
            /\ Len(senders[last'.who].buffer.v) >= senders[last'.who].batch_size) =>
             /\ last'.outcome \in {"ok", "io", "full", "disconnected"}
             /\ last'.outcome \in {"ok", "io"} =>
                  enqueued' = Append(enqueued,
                      Append(senders[last'.who].buffer.v, last'.arg))
      ]_vars

\* a retry that met a full channel again: the buffer holds more than
\* batch_size samples
C2_Witness ==
    /\ last.op = "send"
    /\ last.outcome = "full"
    /\ Len(senders[last.who].buffer.v) > senders[last.who].batch_size

\* C3: after every send, try_send and set_batch_size call, whatever the
\* channel answered, every Sender holds a buffer.
C3_BufferNeverAbsent == \A s \in SenderIds : senders[s].buffer.some

\* C4: try_send on a buffer of n samples succeeds and appends iff
\* n < batch_size - 1; otherwise it returns Err, enqueues nothing and the n
\* buffered samples stay in the Sender.
C4_TrySendKeepsBuffer ==
    [][ (/\ last'.op = "try_send"
         /\ issued' = issued + 1
         /\ senders[last'.who].buffer.some) =>
          LET me == senders[last'.who]
              n == Len(me.buffer.v)
          IN /\ last'.ret = "Ok" <=> n < me.batch_size - 1
             /\ last'.ret = "Ok" =>
                  senders'[last'.who].buffer = Some(Append(me.buffer.v, last'.arg))
             /\ last'.ret = "Err" =>
                  /\ data_q' = data_q
                  /\ senders'[last'.who].buffer = Some(me.buffer.v)
      ]_vars

\* C5: no sample is enqueued on the data channel twice, across a Sender and
\* its clones.
C5_NoSampleEnqueuedTwice ==
    LET all == Ids(Flatten(enqueued)) IN
    \A i, j \in 1 .. Len(all) : i # j => all[i] # all[j]

CountKey(label) == label \o "_count"

\* C6: without RemoveInterest, the count key of a label does not decrease
\* from one window-boundary snapshot to the next.
C6_CountNonDecreasing ==
    [][ last'.op = "window" =>
          \A l \in Labels :
              (CountKey(l) \in DOMAIN meters.data
                 /\ CountKey(l) \in DOMAIN meters'.data) =>
                  meters'.data[CountKey(l)] >= meters.data[CountKey(l)]
      ]_vars

\* C7: AddInterest(i) with i already registered changes neither the interest
\* set nor any per-label structure.
C7_AddInterestIdempotent ==
    [][ (last'.op = "AddInterest" /\ last'.arg \in interests) =>
          UNCHANGED <<interests, allans, counters, gauges, latency_histograms,
                      value_histograms, latency_heatmaps, value_heatmaps>>
      ]_vars

\* C8: RemoveInterest(i) with i not registered changes neither the interest
\* set nor any per-label structure.
C8_RemoveAbsentIsNoOp ==
    [][ (last'.op = "RemoveInterest" /\ last'.arg \notin interests) =>
          UNCHANGED <<interests, allans, counters, gauges, latency_histograms,
                      value_histograms, latency_heatmaps, value_heatmaps>>
      ]_vars

\* C9: the window-boundary procedure leaves every registered latency and
\* value histogram registered and without entries, and leaves counters,
\* gauges, heatmaps, Allan accumulators and the interest set as they were.
C9_WindowClearsHistogramsOnly ==
    [][ last'.op = "window" =>
          /\ DOMAIN latency_histograms' = DOMAIN latency_histograms
          /\ DOMAIN value_histograms' = DOMAIN value_histograms
          /\ \A l \in DOMAIN latency_histograms' :
                Entries(latency_histograms'[l]) = 0
          /\ \A l \in DOMAIN value_histograms' :
                Entries(value_histograms'[l]) = 0
          /\ UNCHANGED <<counters, gauges, latency_heatmaps, value_heatmaps,
                         allans, interests>>
      ]_vars

\* a boundary has just closed a window in which the latency histogram of
\* "a" received samples (its max is in Meters), with a counter and a heatmap
\* holding data
C9_Witness ==
    /\ last.op = "window"
    /\ "a" \in DOMAIN latency_histograms
    /\ "a_max_nanoseconds" \in DOMAIN meters.data
    /\ meters.data["a_max_nanoseconds"] > 0
    /\ \E l \in DOMAIN counters : counters[l] > 0

\* the Meters keys check_elapsed writes for one interest
KeysOf(interest) ==
    CASE interest.kind = "Count" -> {interest.key \o "_count"}
      [] interest.kind = "Gauge" -> {interest.key \o "_value"}
      [] interest.kind = "LatencyPercentile" ->
           {interest.key \o "_" \o DefaultPercentiles[n].name \o "_nanoseconds" :
               n \in 1 .. Len(DefaultPercentiles)}
      [] interest.kind = "ValuePercentile" ->
           {interest.key \o "_" \o DefaultPercentiles[n].name \o "_units" :
               n \in 1 .. Len(DefaultPercentiles)}
      [] interest.kind = "AllanDeviation" ->
           {interest.key \o "_tau_" \o ToString(tau) \o "_adev" :
               tau \in 1 .. LastDefaultTau}
      [] OTHER -> {}

\* C10: after a window boundary both maps of Meters hold only keys of
\* interests that are in the interest set.
C10_MetersOnlyCurrentInterests ==
    last.op = "window" =>
        (DOMAIN meters.data \cup DOMAIN meters.data_float)
            \subseteq UNION {KeysOf(i) : i \in interests}

\* the keys of a Meters value, integer and float
MeterKeys(m) == DOMAIN m.data \cup DOMAIN m.data_float

\* the Meters values sent to or received by get_meters callers
Snapshots ==
    {calls[c].slot.v : c \in {d \in DOMAIN calls : calls[d].slot.some}}
    \cup {calls[c].ret.meters : c \in {d \in DOMAIN calls : calls[d].ret.ok}}

\* the Meters keys of every interest kind and label
KindKeys == [k \in LabelKinds, l \in Labels |-> KeysOf(Interest(k, l, ""))]

\* C11: for a label l and an interest kind k such that no AddInterest of
\* k(l) was ever handled, neither the Receiver's Meters nor any snapshot of a
\* get_meters call holds a key of kind k for l.
C11_NeverRegisteredNeverReported ==
    \A k \in LabelKinds, l \in Labels :
        Interest(k, l, "") \notin handled.added =>
            /\ KindKeys[k, l] \cap MeterKeys(meters) = {}
            /\ \A m \in Snapshots : KindKeys[k, l] \cap MeterKeys(m) = {}

\* a boundary has reported the count of "a" from applied samples while the
\* gauge of "a" and the count of "b" were never registered
C11_Witness ==
    /\ last.op = "window"
    /\ "a_count" \in DOMAIN meters.data
    /\ meters.data["a_count"] > 0
    /\ Interest("Gauge", "a", "") \notin handled.added
    /\ Interest("Count", "b", "") \notin handled.added

\* C12: the Meters put on the reply channel when a SnapshotMeters message
\* is handled is the Receiver's Meters of that instant, whole batches only
\* are counted in it (every sample counts 1 and every batch holds BatchSize
\* samples), handling the message changes no aggregator state and drains
\* no data batch, and the caller receives exactly the Meters that was sent.
C12_SnapshotAtHandlingInstant ==
    [][ /\ (last'.op = "SnapshotMeters" /\ last'.ret = "Ok") =>
             /\ calls'[last'.who].slot = Some(meters)
             /\ UNCHANGED <<rxVars, applied, data_q, handled>>
             /\ \A l \in Labels :
                   CountKey(l) \in DOMAIN meters.data =>
                       /\ meters.data[CountKey(l)] % BatchSize = 0
                       /\ meters.data[CountKey(l)] <= Len(applied)
        /\ (last'.op = "recv" /\ last'.ret = "Ok") =>
             /\ calls[last'.who].slot.some
             /\ calls'[last'.who].ret =
                  [ok |-> TRUE, meters |-> calls[last'.who].slot.v]
      ]_vars

\* a caller has received a snapshot that counts applied samples
C12_Witness ==
    /\ last.op = "recv"
    /\ calls[last.who].ret.ok
    /\ "a_count" \in DOMAIN calls[last.who].ret.meters.data
    /\ calls[last.who].ret.meters.data["a_count"] > 0

\* C13: a snapshot requested after the sends of N >= 1 samples (count 1 each) on
\* the Count-registered label "a" have returned, every applied sample having
\* been counted, reports a count of exactly N; and a snapshot never reports
\* more than the samples sent.
C13_SnapshotCountsAllSent ==
    \A c \in DOMAIN calls :
        calls[c].ret.ok =>
            LET m == calls[c].ret.meters IN
            /\ (calls[c].counted /\ calls[c].issued >= 1) =>
                  /\ "a_count" \in DOMAIN m.data
                  /\ m.data["a_count"] = calls[c].issued
            /\ "a_count" \in DOMAIN m.data => m.data["a_count"] <= issued

\* C15: two get_meters calls that failed for different causes among control
\* channel full, control channel disconnected and reply closed returned
\* different errors.
C15_DistinctFailures ==
    \A c, d \in DOMAIN calls :
        (/\ calls[c].state = "returned" /\ calls[d].state = "returned"
         /\ calls[c].cause \in {"full", "disconnected", "closed"}
         /\ calls[d].cause \in {"full", "disconnected", "closed"}
         /\ calls[c].cause # calls[d].cause) =>
            calls[c].ret # calls[d].ret

\* C16: a get_meters call whose message was accepted by the control channel
\* eventually returns.
C16_GetMetersReturns ==
    \A c \in 1 .. MaxCalls :
        (c \in DOMAIN calls /\ calls[c].state = "waiting")
            ~> (c \in DOMAIN calls /\ calls[c].state = "returned")

\* C17: handling a SnapshotMeters message whose reply receiver has been
\* dropped changes no aggregator state and leaves the Receiver in its loop.
C17_DroppedReplySwallowed ==
    [][ (last'.op = "SnapshotMeters" /\ ~calls[last'.who].rx) =>
          /\ run_pc' \in {"check", "data"}
          /\ UNCHANGED <<rxVars, applied, data_q>>
      ]_vars

\* the fields of the Receiver that Meters is computed from
MeterSources(r) ==
    <<r.interests, r.counters, r.gauges, r.latency_histograms,
      r.value_histograms, r.allans, r.meters>>

\* C14: in a state where interest i is not registered, AddInterest(i)
\* followed at once by RemoveInterest(i) gives a state with the Meters, and
\* with every structure Meters is computed from, of the state in which i was
\* not added; and the Meters after any further batch and window boundary are
\* the same in both.
C14_AddRemoveRoundTrip ==
    \A i \in InterestInputs :
        i \notin interests =>
            LET r == RemoveInterest(AddInterest(Rx, i), i) IN
            /\ r.meters = meters
            /\ MeterSources(r) = MeterSources(Rx)
            /\ \A results \in BatchInputs :
                  WindowRefresh(ApplyBatch(r, results)).meters
                      = WindowRefresh(ApplyBatch(Rx, results)).meters

\* the Receiver has handled AddInterest(Count(a)) and then
\* RemoveInterest(Count(a)), with a batch applied and a window closed
C14_Witness ==
    /\ last.op = "RemoveInterest"
    /\ last.arg = Interest("Count", "a", "")
    /\ last.arg \in handled.added
    /\ last.arg \notin interests
    /\ handled.batches > 0
    /\ windows_done > 0

\* C18: in service mode with windows = W >= 1, the k-th save_files call comes
\* after exactly k * W window boundaries: W boundaries before the first
\* save and W between consecutive saves.
C18_ServiceSavesEveryWWindows ==
    (config.service_mode /\ config.windows >= 1) =>
        \A k \in DOMAIN saves : saves[k] = k * config.windows

\* C19: with service_mode false and windows = W >= 1, run never performs
\* more than W window boundaries, calls save_files only after the W-th one
\* and only once, and has performed exactly W boundaries and one save when
\* it returns.
C19_RunHaltsAfterWWindows ==
    (~config.service_mode /\ config.windows >= 1) =>
        /\ windows_done <= config.windows
        /\ Len(saves) <= 1
        /\ saves # <<>> => saves = <<config.windows>>
        /\ run_pc = "save" => (windows_done = config.windows /\ saves = <<>>)
        /\ run_pc = "returned" =>
              (windows_done = config.windows /\ saves = <<config.windows>>)

\* a run of MaxRunWindows windows has returned after applying samples
C19_Witness ==
    /\ ~config.service_mode
    /\ config.windows = MaxRunWindows
    /\ run_pc = "returned"
    /\ applied # <<>>

\* C20: once the counter has reached window_time during a run_once call,
\* the window-boundary procedure is eventually performed.
C20_WindowBoundaryLive ==
    \A n \in 0 .. MaxTsc :
        (/\ rx_alive
         /\ run_pc \in {"check", "poll"}
         /\ tsc >= window_time
         /\ windows_done = n) ~> (windows_done > n)

\* Flatten(enqueued), with the Sender that enqueued the batch in place of
\* each sample
RECURSIVE FlatFlushers(_)
FlatFlushers(n) ==
    IF n = 0 THEN <<>>
    ELSE FlatFlushers(n - 1) \o [m \in DOMAIN enqueued[n] |-> flusher[n]]

\* the positions of `applied` that hold samples enqueued by Sender s.  The
\* Receiver applies batches in channel order, so position k of applied is
\* position k of the flattened accepted batches.
AppliedOf(s) ==
    LET by == FlatFlushers(Len(enqueued))
    IN {k \in DOMAIN applied : by[k] = s}

C22_InFlightBounded == Len(Flatten(data_q)) <= Capacity * BatchSize

\* the ids of the samples Sender s holds in a buffer it retained when the
\* channel refused it
Retained(s) ==
    IF senders[s].buffer.some /\ Len(senders[s].buffer.v) >= senders[s].batch_size
    THEN {senders[s].buffer.v[n].id : n \in DOMAIN senders[s].buffer.v}
    ELSE {}

\* C23: a sample held in a buffer that a Sender retained because the channel
\* was full is eventually applied by the polling Receiver, whether or not
\* the producer calls send again.
C23_BacklogDrains ==
    \A id \in 1 .. MaxBacklog :
        (\E s \in SenderIds : id \in Retained(s))
            ~> (\E n \in DOMAIN applied : applied[n] = id)

\* C24: in every state a producer holding a Sender can complete an
\* add_interest or remove_interest call at once: the call never has to wait
\* for a step of the Receiver.
C24_InterestCallsNeverBlock ==
    senders # <<>> => \A msg \in RunControlInputs : ENABLED SendInterest(msg)

\* the samples of label l applied since AddInterest(i) was last handled, in
\* the order of their application
AppliedSince(i, l) ==
    LET recent == SubSeq(applied, handled.since[i] + 1, Len(applied))
    IN SelectSeq([n \in DOMAIN recent |-> MeterSamples[recent[n]]],
                 LAMBDA sample : sample.channel = l)

RECURSIVE SumOfCounts(_)
SumOfCounts(samples) ==
    IF samples = <<>> THEN 0
    ELSE Head(samples).count + SumOfCounts(Tail(samples))

AdevKey == [l \in Labels, tau \in 1 .. LastDefaultTau |->
               l \o "_tau_" \o ToString(tau) \o "_adev"]

\* the histogram of key holds no entry (or the key has no histogram)
NoEntries(m, key) == key \notin DOMAIN m \/ Entries(m[key]) = 0

\* the percentile keys of a label are all in Meters with value 0
PercentilesZero(m, l, unit) ==
    \A n \in DOMAIN DefaultPercentiles :
        LET key == l \o "_" \o DefaultPercentiles[n].name \o unit IN
        key \in DOMAIN m.data /\ m.data[key] = 0

\* C27: a window boundary writes, for every registered LatencyPercentile or
\* ValuePercentile label whose histogram holds no entry, all nine percentile
\* keys with value 0, and for every registered AllanDeviation label and
\* every tau of the default taus for which no deviation is available, the
\* float key with value 0.
C27_AbsentReportedAsZero ==
    [][ last'.op = "window" =>
          \A l \in Labels :
              /\ (Interest("LatencyPercentile", l, "") \in interests
                    /\ NoEntries(latency_histograms, l)) =>
                     PercentilesZero(meters', l, "_nanoseconds")
              /\ (Interest("ValuePercentile", l, "") \in interests
                    /\ NoEntries(value_histograms, l)) =>
                     PercentilesZero(meters', l, "_units")
              /\ Interest("AllanDeviation", l, "") \in interests =>
                    \A tau \in 1 .. LastDefaultTau :
                        ~AllansAdev(allans, l, tau).ok =>
                            /\ AdevKey[l, tau] \in DOMAIN meters'.data_float
                            /\ meters'.data_float[AdevKey[l, tau]] = 0
      ]_vars

LatencyHeatmapKinds == {"LatencyTrace", "LatencyWaterfall"}

\* C28: handling AddInterest for a LatencyTrace or LatencyWaterfall interest
\* on a label that has another such interest registered (another variant or
\* path) adds the interest to the set, keeps the other one, and leaves the
\* label's heatmap with everything recorded in it.
C28_SecondHeatmapInterestKeepsData ==
    [][ (/\ last'.op = "AddInterest"
         /\ last'.arg.kind \in LatencyHeatmapKinds
         /\ \E i \in interests :
               /\ i # last'.arg
               /\ i.kind \in LatencyHeatmapKinds
               /\ i.key = last'.arg.key) =>
          /\ interests' = interests \cup {last'.arg}
          /\ latency_heatmaps' = latency_heatmaps
      ]_vars

\* C29: a Receiver whose Config has windows = 0 does not exist past
\* construction: none ever executes run or run_once, performs a window
\* boundary or saves.
C29_ZeroWindowsRejected ==
    config.windows = 0 =>
        /\ run_pc = "ready"
        /\ windows_done = 0
        /\ saves = <<>>

\* the per-label maps of the Receiver
LabelMaps(r) ==
    <<r.allans, r.counters, r.gauges, r.latency_histograms,
      r.value_histograms, r.latency_heatmaps, r.value_heatmaps>>

\* map `after` has the keys of `before`, with the same structure for every
\* key outside `touched`
SameExceptFor(before, after, touched) ==
    /\ DOMAIN after = DOMAIN before
    /\ \A k \in DOMAIN before \ touched : after[k] = before[k]

\* Histograms::percentile and Histograms::increment on the keys that were
\* not initialised: Err("no data"), and no change
Uninitialised(m) ==
    \A l \in Labels \ DOMAIN m :
        /\ \A n \in DOMAIN DefaultPercentiles :
              ~HistogramsPercentile(m, l, DefaultPercentiles[n].p).ok
        /\ HistogramsIncrement(m, l, 1) = m

\* C30: a data event creates and removes no per-label structure and leaves
\* the structure of every label that has no sample in the batch as it was;
\* and in every state, for a key without a histogram, percentile is an error
\* and increment changes nothing.
C30_MapsSelfFilter ==
    [][ /\ Uninitialised(latency_histograms) /\ Uninitialised(value_histograms)
        /\ Uninitialised(latency_histograms') /\ Uninitialised(value_histograms')
        /\ last'.op = "data" =>
              LET new == SubSeq(applied', Len(applied) + 1, Len(applied'))
                  touched == {MeterSamples[new[n]].channel : n \in DOMAIN new}
              IN /\ new # <<>>
                 /\ \A n \in DOMAIN LabelMaps(Rx) :
                       SameExceptFor(LabelMaps(Rx)[n], LabelMaps(Rx)'[n], touched)
                 /\ interests' = interests
      ]_vars

\* a batch of samples on "b" has been applied while "a" has a counter and a
\* latency histogram with data and "b" has no structure of any kind
C30_Witness ==
    /\ last.op = "data"
    /\ handled.batches = 2
    /\ \A n \in 1 .. BatchSize :
          MeterSamples[applied[Len(applied) - n + 1]].channel = "b"
    /\ "a" \in DOMAIN counters /\ counters["a"] > 0
    /\ "a" \in DOMAIN latency_histograms
    /\ Entries(latency_histograms["a"]) > 0
    /\ \A n \in DOMAIN LabelMaps(Rx) : "b" \notin DOMAIN LabelMaps(Rx)[n]

\* ---------------------------------------------------------------------
\* The run of the queue-based Receiver (lib.rs)
\* ---------------------------------------------------------------------
\* what the queue-based Receiver leaves alone
legacyFrame ==
    <<chanVars, rxVars, windows_done, histVars, applied, handled, ctlVars,
      config, run_pc, window, tsc, window_time, saves>>

LegacyNext ==
    \/ (\E W \in 0 .. MaxLegacyWindows : LegacyConfigured(W))
          /\ UNCHANGED legacyFrame
    \/ LegacySend /\ UNCHANGED legacyFrame
    \/ LegacyRun /\ UNCHANGED legacyFrame
    \/ LegacyIterate /\ UNCHANGED legacyFrame
    \/ LegacyTick /\ UNCHANGED legacyFrame
LegacySpec == Init /\ [][LegacyNext]_vars

\* C31: when the run of the queue-based Receiver configured with
\* windows = W has broken out of its loop, it has saved its artefacts and
\* has completed W window roll-overs, not fewer
C31_LegacyRunCompletesWWindows ==
    legacy.pc = "returned" =>
        /\ legacy.saved
        /\ legacy.rollovers = legacy.windows

\* a run asked for two windows has returned after a single roll-over
C31_ReturnedOneWindowShort ==
    /\ legacy.pc = "returned"
    /\ legacy.windows = 2
    /\ legacy.rollovers = 1

\* ---------------------------------------------------------------------
\* Samples that carry a weight
\* ---------------------------------------------------------------------
\* samples whose count differs from 1 and from their latency; the id is the
\* index of the sample
WeightSamples ==
    << Sample(1, "a", 0, 4, 3), Sample(2, "a", 2, 4, 2), Sample(3, "a", 0, 4, 2) >>

\* the batches a Sender flushes with batch_size 1 .. BatchSize
WeightBatches ==
    UNION {SeqsOfLen({WeightSamples[n] : n \in DOMAIN WeightSamples}, len) :
              len \in 1 .. BatchSize}

WeightInterests ==
    {Interest(k, "a", "") : k \in {"Count", "LatencyPercentile", "ValuePercentile"}}

WeightDataInput ==
    \E results \in WeightBatches :
        /\ handled.batches < MaxBatches
        /\ DataEventOf(results)
        /\ UNCHANGED data_q

\* control messages handled in the weight specification
MaxWeightCtl == 3

WeightControlInput ==
    \E t \in {"AddInterest", "RemoveInterest"}, i \in WeightInterests :
        /\ handled.ctl < MaxWeightCtl
        /\ ControlArm([type |-> t, interest |-> i])

\* the Receiver applying weighted samples to a label's counter and histograms
WeightNext ==
    \/ WeightDataInput /\ UNCHANGED <<ctlVars, runVars>>
    \/ WeightControlInput /\ UNCHANGED <<ctlVars, runVars>>
    \/ WindowBoundary /\ UNCHANGED <<ctlVars, runVars>>
WeightSpec == Init /\ [][WeightNext]_vars

\* the samples the step applies, in order
JustApplied ==
    LET ids == SubSeq(applied', Len(applied) + 1, Len(applied'))
    IN [n \in DOMAIN ids |-> WeightSamples[ids[n]]]

\* the entries of one bucket of a histogram
BucketCount(h, bucket) == IF bucket \in DOMAIN h THEN h[bucket] ELSE 0

\* the latency run_once computes for a sample
Latency(sample) == AsU64(Convert(sample.stop) - Convert(sample.start))

\* C32: a data event on a label registered for Count, LatencyPercentile and
\* ValuePercentile adds to the label's counter the count N of each sample it
\* applies, and adds exactly one entry per sample to the latency histogram,
\* at the bucket of the sample's dt, and exactly one entry per sample to the
\* value histogram, at the bucket N; the histograms are never weighted by N.
C32_WeightUsedByCountersOnly ==
    [][(last'.op = "data" /\ WeightInterests \subseteq interests) =>
        LET batch == JustApplied IN
        /\ batch # <<>>
        /\ counters'["a"] = counters["a"] + SumOfCounts(batch)
        /\ Entries(latency_histograms'["a"]) =
              Entries(latency_histograms["a"]) + Len(batch)
        /\ Entries(value_histograms'["a"]) =
              Entries(value_histograms["a"]) + Len(batch)
        /\ \A bucket \in 0 .. 8 :
              /\ BucketCount(latency_histograms'["a"], bucket) =
                    BucketCount(latency_histograms["a"], bucket)
                    + Len(SelectSeq(batch, LAMBDA sample : Latency(sample) = bucket))
              /\ BucketCount(value_histograms'["a"], bucket) =
                    BucketCount(value_histograms["a"], bucket)
                    + Len(SelectSeq(batch, LAMBDA sample : sample.count = bucket))]_vars

\* one sample with count 3 and latency 2 has been applied to a label with
\* the three interests: the counter reads 3, each histogram holds one entry
C32_Witness ==
    /\ last.op = "data"
    /\ WeightInterests \subseteq interests
    /\ applied = <<1>>
    /\ counters["a"] = 3
    /\ latency_histograms["a"] = (2 :> 1)
    /\ value_histograms["a"] = (3 :> 1)

\* ---------------------------------------------------------------------
\* A poll iteration with both channels busy
\* ---------------------------------------------------------------------
\* a producer that keeps the data channel busy
PollProducer ==
    \/ senders = <<>> /\ GetSender
    \/ \E s \in SenderIds : issued < MaxBacklog /\ Send(s, NewSample)

\* the producer, its interests, the clock and the Receiver inside run
PollNext ==
    \/ PollProducer /\ UNCHANGED <<ctlVars, runVars>>
    \/ InterestTraffic /\ UNCHANGED runVars
    \/ RunCall
    \/ ReceiverStep
    \/ Tick

PollSpec == CtlInit /\ [][PollNext]_vars

\* the Receiver's thread has taken a step of its poll iteration
EventHandled == run_pc' # run_pc

\* the step applies the control message at the head of the control channel
ControlApplied ==
    /\ control_q # <<>>
    /\ control_q' = Tail(control_q)
    /\ last'.op = Head(control_q).type

FlushAttempted(op) == op.outcome \in {"ok", "io", "full", "disconnected"}

\* C34: set_batch_size changes the threshold of its Sender and nothing else:
\* the buffer keeps its contents, nothing is enqueued, the other Senders
\* are untouched.  A send on a Sender that holds a buffer attempts a flush
\* exactly when the buffer, with the new sample appended, has reached the
\* current batch_size, and a flush the channel accepts enqueues the whole
\* buffer, however far beyond batch_size it had grown.
C34_SetBatchSizeOnlyThreshold ==
    [][/\ last'.op = "set_batch_size" =>
            /\ DOMAIN senders' = DOMAIN senders
            /\ \A s \in DOMAIN senders :
                  /\ senders'[s].buffer = senders[s].buffer
                  /\ s # last'.who => senders'[s] = senders[s]
            /\ UNCHANGED <<data_q, enqueued, empty_queue, issued>>
       /\ (last'.op = "send" /\ senders[last'.who].buffer.some) =>
            LET me == senders[last'.who]
                buffer == Append(me.buffer.v, last'.arg)
            IN /\ FlushAttempted(last') <=> Len(buffer) >= me.batch_size
               /\ last'.outcome \in {"ok", "io"} =>
                     enqueued' = Append(enqueued, buffer)
               /\ ~FlushAttempted(last') =>
                     /\ senders'[last'.who].buffer = Some(buffer)
                     /\ enqueued' = enqueued
      ]_vars

\* a Sender whose buffer already held batch_size = 1 samples before the
\* send has flushed it whole, as one batch of two samples
C34_Witness ==
    /\ last.op = "send"
    /\ last.outcome = "ok"
    /\ senders[last.who].batch_size = 1
    /\ enqueued # <<>>
    /\ Len(enqueued[Len(enqueued)]) = 2
    /\ flusher[Len(flusher)] = last.who

\* ---------------------------------------------------------------------
\* Samples with any pair of timestamps
\* ---------------------------------------------------------------------
\* Sample::new(start, stop, channel) stores what it is given: one sample
\* that stops after it starts, one that stops before; the id is the index
TimingSamples == << Sample(1, "a", 2, 6, 1), Sample(2, "a", 6, 2, 1) >>

TimingBatches ==
    UNION {SeqsOfLen({TimingSamples[n] : n \in DOMAIN TimingSamples}, len) :
              len \in 1 .. BatchSize}

TimingDataInput ==
    \E results \in TimingBatches :
        /\ handled.batches < MaxBatches
        /\ DataEventOf(results)
        /\ UNCHANGED data_q

TimingControlInput ==
    \E t \in {"AddInterest", "RemoveInterest"} :
        ControlEventOf([type |-> t,
                        interest |-> Interest("LatencyPercentile", "a", "")])

\* the Receiver applying whatever samples the constructors let through
TimingNext ==
    \/ TimingDataInput /\ UNCHANGED <<ctlVars, runVars>>
    \/ TimingControlInput /\ UNCHANGED <<ctlVars, runVars>>
    \/ WindowBoundary /\ UNCHANGED <<ctlVars, runVars>>
TimingSpec == Init /\ [][TimingNext]_vars

\* C35: every sample the Receiver has applied stops no earlier than it
\* starts, so that dt = convert(stop) - convert(start) is never negative.
C35_AppliedSamplesStopAfterStart ==
    \A n \in DOMAIN applied :
        LET sample == TimingSamples[applied[n]] IN
        /\ sample.stop >= sample.start
        /\ Convert(sample.stop) - Convert(sample.start) >= 0

\* Sample::new(6, 2, a) has been applied: its dt is negative and its
\* latency has been recorded in bucket 0
C35_BackwardsSampleApplied ==
    /\ last.op = "data"
    /\ applied = <<2>>
    /\ Convert(TimingSamples[2].stop) - Convert(TimingSamples[2].start) < 0
    /\ "a" \in DOMAIN latency_histograms
    /\ latency_histograms["a"] = (0 :> 1)

\* ---------------------------------------------------------------------
\* A producer that registers its interest before it sends
\* ---------------------------------------------------------------------
RegisteredInterest == Interest("Count", "a", "")

\* add_interest(Count(a)) has been called and has returned
AddInterestReturned == handled.ctl + PendingInterests >= 1

\* the producer: get_sender, then add_interest(Count(a)), and only after
\* that call has returned, sends of samples of a through the same Sender
RegisteringProducer ==
    \/ senders = <<>> /\ GetSender /\ UNCHANGED <<ctlVars, runVars>>
    \/ /\ ~AddInterestReturned
       /\ SendInterest([type |-> "AddInterest", interest |-> RegisteredInterest])
       /\ UNCHANGED runVars
    \/ /\ AddInterestReturned
       /\ \E s \in SenderIds : issued < MaxBacklog /\ Send(s, NewSample)
       /\ UNCHANGED <<ctlVars, runVars>>

RegisterNext ==
    \/ RegisteringProducer
    \/ RunCall
    \/ ReceiverStep
    \/ Tick

RegisterSpec == CtlInit /\ [][RegisterNext]_vars

\* C36: when a producer has called add_interest(Count(a)) before sending its
\* samples of a through the same Sender, the Receiver handles the AddInterest
\* before it applies any of those samples: whenever samples have been
\* applied, the interest was registered before the first of them and the
\* counter of a has counted them all.
C36_RegistrationBeforeUse ==
    applied # <<>> =>
        /\ RegisteredInterest \in interests
        /\ RegisteredInterest \in DOMAIN handled.since
        /\ handled.since[RegisteredInterest] = 0
        /\ "a" \in DOMAIN counters
        /\ counters["a"] = Len(applied)

\* the Receiver has applied a batch sent after add_interest returned while
\* the AddInterest is still in the control channel: no counter exists and
\* the samples have gone uncounted
C36_SamplesAppliedBeforeRegistration ==
    /\ last.op = "data"
    /\ applied # <<>>
    /\ control_q # <<>>
    /\ Head(control_q).type = "AddInterest"
    /\ handled.ctl = 0
    /\ "a" \notin DOMAIN counters

\* ---------------------------------------------------------------------
\* Interests that share a structure
\* ---------------------------------------------------------------------
\* control messages handled in the structure specification
MaxStructureCtl == 3

StructureInterests ==
    {Interest("LatencyTrace", "a", "p1"), Interest("LatencyWaterfall", "a", "p2"),
     Interest("Count", "a", "")}

StructureControlInput ==
    \E t \in {"AddInterest", "RemoveInterest"}, i \in StructureInterests :
        /\ handled.ctl < MaxStructureCtl
        /\ ControlArm([type |-> t, interest |-> i])

\* the Receiver handling interests of two kinds that share the latency
\* heatmap of their label, batches and window boundaries
StructureNext ==
    \/ DataInput /\ UNCHANGED <<ctlVars, runVars>>
    \/ StructureControlInput /\ UNCHANGED <<ctlVars, runVars>>
    \/ WindowBoundary /\ UNCHANGED <<ctlVars, runVars>>
StructureSpec == Init /\ [][StructureNext]_vars

\* the map add_interest initialises for the kind of an interest
StructureMap(r, kind) ==
    CASE kind = "AllanDeviation" -> r.allans
      [] kind = "Count" -> r.counters
      [] kind = "Gauge" -> r.gauges
      [] kind = "LatencyPercentile" -> r.latency_histograms
      [] kind = "ValuePercentile" -> r.value_histograms
      [] kind \in {"LatencyTrace", "LatencyWaterfall"} -> r.latency_heatmaps
      [] kind \in {"ValueTrace", "ValueWaterfall"} -> r.value_heatmaps

\* C37: for every interest in the interest set, the per-label structure of
\* its kind exists for its label.
C37_InterestHasStructure ==
    \A i \in interests : i.key \in DOMAIN StructureMap(Rx, i.kind)

\* LatencyTrace(a) and LatencyWaterfall(a) were both registered, the
\* waterfall interest has been removed, and the trace interest is still in
\* the set without a latency heatmap for a
C37_TraceWithoutHeatmap ==
    /\ last.op = "RemoveInterest"
    /\ last.arg = Interest("LatencyWaterfall", "a", "p2")
    /\ handled.added = {Interest("LatencyTrace", "a", "p1"),
                        Interest("LatencyWaterfall", "a", "p2")}
    /\ interests = {Interest("LatencyTrace", "a", "p1")}
    /\ "a" \notin DOMAIN latency_heatmaps

\* the deadline after k window boundaries
DeadlineAfter(k) == StartTime + (k + 1) * WindowDuration

\* C38: a run_once call returns after exactly one window boundary: run
\* counts a window exactly when a boundary is performed, one at a time.
\* After k boundaries window_time is start_time + (k + 1) * window_duration,
\* however late the boundaries fired, and the k-th boundary fires only when
\* the counter has reached start_time + k * window_duration.
C38_OneBoundaryPerRunOnce ==
    [][/\ window_time = DeadlineAfter(windows_done)
       /\ window_time' = DeadlineAfter(windows_done')
       /\ windows_done' # windows_done =>
            /\ windows_done' = windows_done + 1
            /\ window' = window + 1
            /\ tsc >= StartTime + windows_done' * WindowDuration
            /\ run_pc = "check" /\ run_pc' \in {"check", "save"}
       /\ (window' # window /\ last'.op # "run") =>
            windows_done' = windows_done + 1
      ]_vars

\* the second boundary has just fired at counter 3, one window_duration
\* after its deadline: the new deadline is 3, one window_duration per
\* boundary from start_time, and not counted from the late boundary
C38_Witness ==
    /\ last.op = "window"
    /\ handled.boundaries # <<>>
    /\ windows_done = 2
    /\ tsc = StartTime + 3 * WindowDuration
    /\ window_time = StartTime + 3 * WindowDuration
    /\ saves = <<>>

\* C39: every buffer in the pool is empty and the pool never holds more
\* than capacity buffers; the Data event returns the drained batch to the
\* pool cleared, or drops it when the pool is full, and a Sender whose flush
\* the channel accepted starts over from an empty buffer.
C39_PoolBuffersEmpty ==
    [][/\ Len(empty_queue) <= Capacity /\ Len(empty_queue') <= Capacity
       /\ \A n \in DOMAIN empty_queue : empty_queue[n] = <<>>
       /\ \A n \in DOMAIN empty_queue' : empty_queue'[n] = <<>>
       /\ last'.op = "data" =>
            empty_queue' = IF Len(empty_queue) < Capacity
                           THEN Append(empty_queue, <<>>) ELSE empty_queue
       /\ (last'.op = "send" /\ last'.outcome = "ok") =>
            /\ senders'[last'.who].buffer = Some(<<>>)
            /\ empty_queue' = IF empty_queue = <<>> THEN <<>> ELSE Tail(empty_queue)
      ]_vars

\* a Sender has just flushed its second batch and popped the buffer that the
\* Receiver had returned to the pool after draining the first batch: the
\* Sender's buffer is empty although that batch held a sample
C39_Witness ==
    /\ last.op = "send"
    /\ last.outcome = "ok"
    /\ Len(enqueued) = 2
    /\ handled.batches = 1
    /\ applied # <<>>
    /\ empty_queue = <<>>
    /\ flusher = <<last.who, last.who>>
    /\ senders[last.who].buffer = Some(<<>>)

====
